---- MODULE Spec2Model ----
(***************************************************************************)
(* Model of the boostvqe drivers.                                          *)
(*                                                                         *)
(*   Spec    : main.py, the boosting loop (VQE training, rotation of the   *)
(*             Hamiltonian by the trained circuit, double-bracket          *)
(*             iteration), followed by the final evaluation and the dump.  *)
(*   SpecVQE : train_vqe.py, plain VQE training with the callback closure  *)
(*             that accumulates the optimisation trace.                    *)
(*                                                                         *)
(* Matrices, states and scalars are symbolic terms: a matrix is the        *)
(* sequence of transformations applied to the initial Hamiltonian, an      *)
(* energy is the pair (matrix, state) it is evaluated on.  Hamiltonian     *)
(* objects live in a heap so that aliasing and in-place mutation are       *)
(* visible.  The helpers of utils.py (train_vqe, rotate_h_with_vqe,        *)
(* apply_dbi_steps) are modelled from their specified contracts.           *)
(***************************************************************************)
EXTENDS Integers, Sequences, FiniteSets, TLC

\* ---------------------------------------------------------------- bounds
MaxBoost == 2
MaxDbiSteps == 2
MaxIter == 2
NParams == 2
MaxCalls == 5

\* ------------------------------------------------------------- variables
VARIABLES
    pc, args, heap, ham, target_energy, zero_state, initial_parameters,
    params_history, loss_history, fluctuations,
    boost_energies, boost_fluctuations_dbi,
    new_hamiltonian, b, partial_results, vqe, dbi,
    output_dict, saved, error, stage_log,
    vpc, loss_list, loss_fluctuation, vqe_params_history, ncalls, vqe_output

main_vars == <<pc, args, heap, ham, target_energy, zero_state,
               initial_parameters, params_history, loss_history, fluctuations,
               boost_energies, boost_fluctuations_dbi, new_hamiltonian, b,
               partial_results, vqe, dbi, output_dict, saved, error, stage_log>>

vqe_vars == <<vpc, loss_list, loss_fluctuation, vqe_params_history, ncalls,
              vqe_output>>

vars == <<main_vars, vqe_vars>>

\* ------------------------------------------------------- symbolic values
\* The matrix of the freshly built Hamiltonian: no transformation applied.
H0 == <<>>

\* backend.zero_state(nqubits)
ZeroState == [kind |-> "zero", p |-> <<>>]

\* State produced by executing the circuit at parameters p.
ExecuteCircuit(p) == [kind |-> "psi", p |-> p]

\* hamiltonian.expectation(state)
Expectation(m, s) == [q |-> "E", m |-> m, s |-> s]

\* hamiltonian.energy_fluctuation(state)
EnergyFluctuation(m, s) == [q |-> "dE", m |-> m, s |-> s]

\* min(ham.eigenvalues())
MinEigenvalue(m) == [q |-> "minEig", m |-> m, s |-> ZeroState]

\* np.zeros(n)
Zeros(n) == [i \in 1..n |-> 0]

\* np.random.seed(SEED); np.random.randn(n): one fixed non-zero draw.
Randn(n) == [i \in 1..n |-> i]

\* Candidate vectors the black-box optimizer may propose.
CandidateValues == {0, 1}
Candidates == {[i \in 1..NParams |-> v] : v \in CandidateValues}

\* loss(params, circuit, hamiltonian)
loss(params, m) ==
    LET final_state == ExecuteCircuit(params)
    IN  <<Expectation(m, final_state), EnergyFluctuation(m, final_state)>>

\* An optional value: <<>> is None / unbound, <<x>> is x.
IsSet(o) == Len(o) = 1
Get(o) == o[1]

\* ------------------------------------------------------------- json keys
Digits == <<"0", "1", "2", "3", "4", "5", "6", "7", "8", "9">>

RECURSIVE JsonDumps(_)
JsonDumps(k) ==
    IF k < 10 THEN Digits[k + 1]
    ELSE JsonDumps(k \div 10) \o Digits[(k % 10) + 1]

\* {json.dumps(key): np.array(value) for key, value in d.items()}
JsonKeyed(d) ==
    [s \in {JsonDumps(k) : k \in DOMAIN d} |->
        d[CHOOSE k \in DOMAIN d : JsonDumps(k) = s]]

\* ---------------------------------------------------------- dictionaries
EmptyDict == [k \in {} |-> <<>>]

StoreRoundFirstKey(d, k, v) ==
    [x \in DOMAIN d \cup {0} |-> IF x = 0 THEN v ELSE d[x]]

StoreRoundKeep(d, k, v) ==
    [x \in DOMAIN d \cup {k} |-> IF x \in DOMAIN d THEN d[x] ELSE v]

\* d[k] = v
StoreRound(d, k, v) ==
    [x \in DOMAIN d \cup {k} |-> IF x = k THEN v ELSE d[x]]

\* ------------------------------------------------------------ loop range
InRangeShort(i, n) == i >= 0 /\ i < n - 1

\* i in range(n)
InRange(i, n) == i >= 0 /\ i < n

\* ------------------------------------------------------------- train_vqe
RECURSIVE Traces(_, _)
\* The traces a training call can record: the first sample is taken at the
\* initial parameters, every further one at a candidate of the optimizer;
\* at most cap samples.
Traces(p0, cap) ==
    IF cap <= 1 THEN {<<p0>>}
    ELSE LET shorter == Traces(p0, cap - 1)
         IN  shorter \cup
             {Append(t, c) : t \in {u \in shorter : Len(u) = cap - 1},
                             c \in Candidates}

\* niterations=args.boost_frequency: None leaves the optimizer to the
\* bound of the model.
IterationCap(boost_frequency) ==
    IF IsSet(boost_frequency) THEN Get(boost_frequency) ELSE MaxIter

\* The parameter vectors the optimizer may return as its argmin: the ones it
\* evaluated in this call.
BestFound(tr) == {tr[i] : i \in 1..Len(tr)}

\* train_vqe(circ, ham, optimizer, initial_parameters, tol, niterations):
\* tr is the recorded trace, trained the best-found parameters the circuit
\* is left at, success the optimizer's convergence flag.
train_vqe(m, h, tr, trained, success) ==
    LET best_loss == Expectation(m, ExecuteCircuit(trained))
    IN  [results |-> [fun |-> best_loss,
                      success |-> success,
                      message |-> IF success THEN "converged"
                                  ELSE "not converged"],
         params_history |-> tr,
         loss_history |-> [i \in 1..Len(tr) |-> loss(tr[i], m)[1]],
         fluctuations |-> [i \in 1..Len(tr) |-> loss(tr[i], m)[2]],
         vqe |-> [params |-> trained, hamiltonian |-> h]]

\* ----------------------------------------------------- rotate_h_with_vqe
\* U^dagger H U with U the unitary of the trained circuit.
rotate_h_with_vqe(m, v) ==
    Append(m, [op |-> "U", p |-> v.params, optimized |-> FALSE])

BuildRotatedInPlace(hp, h, v) ==
    [heap |-> [hp EXCEPT ![h] = rotate_h_with_vqe(hp[h], v)], ref |-> h]

\* new_hamiltonian = hamiltonians.Hamiltonian(nqubits, matrix=rotated)
BuildRotated(hp, h, v) ==
    [heap |-> Append(hp, rotate_h_with_vqe(hp[h], v)), ref |-> Len(hp) + 1]

\* ------------------------------------------------------- apply_dbi_steps
RECURSIVE DbiFlow(_, _, _)
\* The matrix after n double-bracket steps.
DbiFlow(m, n, optimize_step) ==
    IF n <= 0 THEN m
    ELSE Append(DbiFlow(m, n - 1, optimize_step),
                [op |-> "G", p |-> <<>>, optimized |-> optimize_step])


\* apply_dbi_steps rejects a negative step count (ConfigurationError).
DbiStepsRejected(nsteps) == nsteps < 0

\* The matrix exponential of a flow update can overflow only if a step is
\* taken.
CanOverflow(nsteps) == nsteps >= 1

\* apply_dbi_steps(dbi, nsteps, optimize_step): advances dbi.h by nsteps
\* steps and records energy and fluctuation after each.  It raises
\* ConfigurationError for nsteps < 0 and NumericalInstabilityError when a
\* flow update overflows; raised is <<>> when it returns.
apply_dbi_steps(hp, d, nsteps, optimize_step, overflow) ==
    LET m0 == hp[d.h]
        hp2 == IF nsteps <= 0 THEN hp
               ELSE Append(hp, DbiFlow(m0, nsteps, optimize_step))
        ref == IF nsteps <= 0 THEN d.h ELSE Len(hp) + 1
    IN  [raised |-> IF DbiStepsRejected(nsteps)
                    THEN <<"ConfigurationError">>
                    ELSE IF overflow /\ CanOverflow(nsteps)
                         THEN <<"NumericalInstabilityError">>
                         ELSE <<>>,
         heap |-> hp2,
         dbi |-> [h |-> ref],
         h |-> ref,
         energies |-> [i \in 1..nsteps |->
                          Expectation(DbiFlow(m0, i, optimize_step), ZeroState)],
         fluctuations |-> [i \in 1..nsteps |->
                          EnergyFluctuation(DbiFlow(m0, i, optimize_step),
                                            ZeroState)]]

DbiHandoffRotated(rotated, res) == rotated

\* new_hamiltonian, dbi_energies, dbi_fluctuations = apply_dbi_steps(...)
DbiHandoff(rotated, res) == res.h

ResetParametersKeep(p) == p

\* initial_parameters = np.zeros(len(initial_parameters))
ResetParameters(p) == Zeros(Len(p))

FinalObservablesOriginal(hp, d, state) ==
    [energy |-> Expectation(hp[ham], state),
     fluctuations |-> EnergyFluctuation(hp[ham], state)]

\* ene_fluct_dbi = dbi.energy_fluctuation(zero_state)
\* energy = dbi.h.expectation(zero_state)
FinalObservables(hp, d, state) ==
    [energy |-> Expectation(hp[d.h], state),
     fluctuations |-> EnergyFluctuation(hp[d.h], state)]

AfterTrainStrict(results) == IF results.success THEN "rotate" ELSE "error"

\* Lines 93-99: the optimizer result is stored and the rotation follows,
\* whatever results.success says.
AfterTrain(results) == "rotate"

\* One entry of the observation log of executed stages.
LogEntry(stage, round, hin, hout, p0, best, success, ok) ==
    [stage |-> stage, round |-> round, hin |-> hin, hout |-> hout,
     p0 |-> p0, best |-> best, success |-> success, ok |-> ok]

\* ------------------------------------------------------ main.py: inputs
Args ==
    [nboost : 0..MaxBoost,
     dbi_steps : (-1)..MaxDbiSteps,
     boost_frequency : {<<>>} \cup {<<n>> : n \in 1..MaxIter},
     optimize_dbi_step : BOOLEAN]

VqeIdle ==
    /\ vpc = "idle"
    /\ loss_list = <<>>
    /\ loss_fluctuation = <<>>
    /\ vqe_params_history = <<>>
    /\ ncalls = 0
    /\ vqe_output = <<>>

MainIdle(p) ==
    /\ pc = p
    /\ heap = <<>>
    /\ ham = 0
    /\ target_energy = <<>>
    /\ zero_state = <<>>
    /\ initial_parameters = <<>>
    /\ params_history = EmptyDict
    /\ loss_history = EmptyDict
    /\ fluctuations = EmptyDict
    /\ boost_energies = EmptyDict
    /\ boost_fluctuations_dbi = EmptyDict
    /\ new_hamiltonian = 0
    /\ b = 0
    /\ partial_results = <<>>
    /\ vqe = <<>>
    /\ dbi = <<>>
    /\ output_dict = <<>>
    /\ saved = <<>>
    /\ error = <<>>
    /\ stage_log = <<>>

\* main(args) is entered with the parsed arguments.
Init ==
    /\ args \in Args
    /\ MainIdle("setup")
    /\ VqeIdle

\* ----------------------------------------------------- main.py: actions
\* Lines 42-72: Hamiltonian, target energy, zero state, initial parameters,
\* empty histories, new_hamiltonian = ham, and the entry of the loop.
Setup ==
    /\ pc = "setup"
    /\ heap' = <<H0>>
    /\ ham' = 1
    /\ target_energy' = <<MinEigenvalue(H0)>>
    /\ zero_state' = ZeroState
    /\ initial_parameters' = Randn(NParams)
    /\ new_hamiltonian' = 1
    /\ b' = 0
    /\ pc' = IF InRange(0, args.nboost) THEN "train" ELSE "final"
    /\ UNCHANGED <<args, params_history, loss_history, fluctuations,
                   boost_energies, boost_fluctuations_dbi, partial_results,
                   vqe, dbi, output_dict, saved, error, stage_log>>
    /\ UNCHANGED vqe_vars

\* Lines 73-96: the round's entries are created empty, the VQE is trained on
\* new_hamiltonian from initial_parameters, and its trace is recorded.
Train ==
    /\ pc = "train"
    /\ \E tr \in Traces(initial_parameters, IterationCap(args.boost_frequency)),
          success \in BOOLEAN :
        \E trained \in BestFound(tr) :
          LET m == heap[new_hamiltonian]
              r == train_vqe(m, new_hamiltonian, tr, trained, success)
          IN  /\ boost_energies' = StoreRound(boost_energies, b, <<>>)
              /\ boost_fluctuations_dbi' =
                     StoreRound(boost_fluctuations_dbi, b, <<>>)
              /\ params_history' =
                     StoreRound(StoreRound(params_history, b, <<>>),
                                b, r.params_history)
              /\ loss_history' =
                     StoreRound(StoreRound(loss_history, b, <<>>),
                                b, r.loss_history)
              /\ fluctuations' =
                     StoreRound(StoreRound(fluctuations, b, <<>>),
                                b, r.fluctuations)
              /\ partial_results' = <<r.results>>
              /\ vqe' = <<r.vqe>>
              /\ stage_log' = Append(stage_log,
                     LogEntry("TRAIN", b, m, m, initial_parameters,
                              trained, success, TRUE))
              /\ pc' = AfterTrain(r.results)
    /\ UNCHANGED <<args, heap, ham, target_energy, zero_state,
                   initial_parameters, new_hamiltonian, b, dbi, output_dict,
                   saved, error>>
    /\ UNCHANGED vqe_vars

\* Lines 98-102: the Hamiltonian is rotated by the trained circuit and
\* wrapped in a Hamiltonian object.
Rotate ==
    /\ pc = "rotate"
    /\ LET r == BuildRotated(heap, new_hamiltonian, Get(vqe))
       IN  /\ heap' = r.heap
           /\ new_hamiltonian' = r.ref
           /\ stage_log' = Append(stage_log,
                  LogEntry("ROTATE", b, heap[new_hamiltonian],
                           r.heap[r.ref], <<>>, <<>>, TRUE, TRUE))
    /\ pc' = "diagonalize"
    /\ UNCHANGED <<args, ham, target_energy, zero_state, initial_parameters,
                   params_history, loss_history, fluctuations, boost_energies,
                   boost_fluctuations_dbi, b, partial_results, vqe, dbi,
                   output_dict, saved, error>>
    /\ UNCHANGED vqe_vars

\* Lines 104-120 and the loop header: the DBI object is built on the rotated
\* Hamiltonian, dbi_steps steps are applied, their energies and fluctuations
\* are recorded, the parameters are reset, and the loop advances.  An
\* exception of apply_dbi_steps is not caught: it ends the run.
Diagonalize ==
    /\ pc = "diagonalize"
    /\ \E overflow \in BOOLEAN :
        LET dbi0 == [h |-> new_hamiltonian]
            m == heap[new_hamiltonian]
            res == apply_dbi_steps(heap, dbi0, args.dbi_steps,
                                   args.optimize_dbi_step, overflow)
            nh == DbiHandoff(new_hamiltonian, res)
        IN  IF IsSet(res.raised)
            THEN /\ dbi' = <<dbi0>>
                 /\ error' = res.raised
                 /\ pc' = "error"
                 /\ stage_log' = Append(stage_log,
                        LogEntry("DIAGONALIZE", b, m, m, <<>>, <<>>,
                                 TRUE, FALSE))
                 /\ UNCHANGED <<heap, new_hamiltonian, boost_energies,
                                boost_fluctuations_dbi, vqe,
                                initial_parameters, b>>
            ELSE /\ heap' = res.heap
                 /\ dbi' = <<res.dbi>>
                 /\ new_hamiltonian' = nh
                 /\ boost_fluctuations_dbi' =
                        StoreRound(boost_fluctuations_dbi, b,
                                   res.fluctuations)
                 /\ boost_energies' =
                        StoreRound(boost_energies, b, res.energies)
                 /\ vqe' = <<[Get(vqe) EXCEPT !.hamiltonian = nh]>>
                 /\ initial_parameters' =
                        ResetParameters(initial_parameters)
                 /\ stage_log' = Append(stage_log,
                        LogEntry("DIAGONALIZE", b, m, res.heap[res.h],
                                 <<>>, <<>>, TRUE, TRUE))
                 /\ IF InRange(b + 1, args.nboost)
                    THEN b' = b + 1 /\ pc' = "train"
                    ELSE b' = b /\ pc' = "final"
                 /\ UNCHANGED error
    /\ UNCHANGED <<args, ham, target_energy, zero_state, params_history,
                   loss_history, fluctuations, partial_results, output_dict,
                   saved>>
    /\ UNCHANGED vqe_vars

\* Lines 122-168: final energy and fluctuation, the output dictionary and
\* the files.  With no round executed, dbi is unbound at line 123.
Finalize ==
    /\ pc = "final"
    /\ IF ~IsSet(dbi)
       THEN /\ error' = <<"UnboundLocalError">>
            /\ pc' = "error"
            /\ UNCHANGED <<output_dict, saved>>
       ELSE LET f == FinalObservables(heap, Get(dbi), zero_state)
                opt_results == Get(partial_results)
            IN  /\ output_dict' =
                       <<[args |-> args,
                          best_loss |-> opt_results.fun,
                          true_ground_energy |-> Get(target_energy),
                          success |-> opt_results.success,
                          message |-> opt_results.message,
                          energy |-> f.energy,
                          fluctuations |-> f.fluctuations]>>
                /\ saved' =
                       <<[loss |-> JsonKeyed(loss_history),
                          fluctuations |-> JsonKeyed(fluctuations),
                          hamiltonian |-> heap[ham],
                          dbi_energies |-> JsonKeyed(boost_energies),
                          dbi_fluctuations |->
                              JsonKeyed(boost_fluctuations_dbi),
                          params |-> params_history]>>
                /\ pc' = "done"
                /\ UNCHANGED error
    /\ UNCHANGED <<args, heap, ham, target_energy, zero_state,
                   initial_parameters, params_history, loss_history,
                   fluctuations, boost_energies, boost_fluctuations_dbi,
                   new_hamiltonian, b, partial_results, vqe, dbi, stage_log>>
    /\ UNCHANGED vqe_vars

Next == Setup \/ Train \/ Rotate \/ Diagonalize \/ Finalize

Spec == Init /\ [][Next]_vars


\* ------------------------------------------------- train_vqe.py: actions
AppendSampleReplace(list, x) == <<x>>

\* list.append(x)
AppendSample(list, x) == Append(list, x)

\* train_vqe.main(args) is entered; the boosting driver is not running.
InitVQE ==
    /\ args = [nboost |-> 0, dbi_steps |-> 0, boost_frequency |-> <<>>,
               optimize_dbi_step |-> FALSE]
    /\ MainIdle("idle")
    /\ vpc = "setup"
    /\ loss_list = <<>>
    /\ loss_fluctuation = <<>>
    /\ vqe_params_history = <<>>
    /\ ncalls = 0
    /\ vqe_output = <<>>

\* Lines 35-79: the Hamiltonian, the circuit, the empty trace lists and the
\* VQE are built and the optimizer is started.
VqeSetup ==
    /\ vpc = "setup"
    /\ loss_list' = <<>>
    /\ loss_fluctuation' = <<>>
    /\ vqe_params_history' = <<>>
    /\ vpc' = "minimize"
    /\ UNCHANGED <<ncalls, vqe_output>>
    /\ UNCHANGED main_vars

\* Lines 59-73: the optimizer invokes callbacks(params) on a candidate.
Callback ==
    /\ vpc = "minimize"
    /\ ncalls < MaxCalls
    /\ \E params \in Candidates \cup {Randn(NParams)} :
          LET l == loss(params, H0)
              energy == l[1]
              energy_fluctuation == l[2]
          IN  /\ loss_list' = AppendSample(loss_list, energy)
              /\ loss_fluctuation' =
                     AppendSample(loss_fluctuation, energy_fluctuation)
              /\ vqe_params_history' =
                     AppendSample(vqe_params_history, params)
    /\ ncalls' = ncalls + 1
    /\ UNCHANGED <<vpc, vqe_output>>
    /\ UNCHANGED main_vars

\* Lines 79-103: the optimizer returns and the results are dumped.
MinimizeReturn ==
    /\ vpc = "minimize"
    /\ \E success \in BOOLEAN, best \in Candidates \cup {Randn(NParams)} :
          vqe_output' =
              <<[best_loss |-> Expectation(H0, ExecuteCircuit(best)),
                 true_ground_energy |-> MinEigenvalue(H0),
                 success |-> success,
                 loss |-> loss_list,
                 fluctuations |-> loss_fluctuation,
                 hamiltonian |-> H0,
                 params |-> vqe_params_history]>>
    /\ vpc' = "done"
    /\ UNCHANGED <<loss_list, loss_fluctuation, vqe_params_history, ncalls>>
    /\ UNCHANGED main_vars

NextVQE == VqeSetup \/ Callback \/ MinimizeReturn

SpecVQE == InitVQE /\ [][NextVQE]_vars


\* ===================================================================
\* Properties
\* ===================================================================
Stages == <<"TRAIN", "ROTATE", "DIAGONALIZE">>

LogIdx == 1..Len(stage_log)

\* Positions of the log holding the given stage of the given round.
At(stage, round) ==
    {i \in LogIdx : stage_log[i].stage = stage /\ stage_log[i].round = round}

Rounds == 0..(args.nboost - 1)

Histories == <<params_history, loss_history, fluctuations,
               boost_energies, boost_fluctuations_dbi>>

\* C1: for nboost >= 1 the run executes exactly nboost rounds, each made of
\* one TRAIN, then one ROTATE, then one DIAGONALIZE; a stage starts only when
\* the previous one has completed, the TRAIN of round b+1 comes after the
\* DIAGONALIZE of round b, and DONE is reached only after the nboost-th
\* DIAGONALIZE (with nboost = 1: after one full cycle).
C1_RoundsInOrder ==
    /\ \A i \in LogIdx :
          /\ stage_log[i].stage = Stages[((i - 1) % 3) + 1]
          /\ stage_log[i].round = (i - 1) \div 3
          /\ stage_log[i].round \in Rounds
          /\ i > 1 => stage_log[i - 1].ok
    /\ pc = "done" =>
          /\ args.nboost >= 1
          /\ Len(stage_log) = 3 * args.nboost
          /\ stage_log[Len(stage_log)].ok
    /\ pc = "train" => Len(stage_log) = 3 * b
    /\ pc = "rotate" => Len(stage_log) = 3 * b + 1
    /\ pc = "diagonalize" => Len(stage_log) = 3 * b + 2

C1_Witness ==
    /\ pc = "done"
    /\ args.nboost = 1
    /\ Len(stage_log) = 3
    /\ stage_log[3].stage = "DIAGONALIZE"

\* C2: round 0 is trained on the initial Hamiltonian; TRAIN and ROTATE of
\* round b+1 receive exactly the Hamiltonian returned by the DIAGONALIZE of
\* round b (not the rotated one, not the original one); within a round ROTATE
\* receives the Hamiltonian that was trained on and DIAGONALIZE the output of
\* ROTATE.
C2_HamiltonianHandoff ==
    \A i \in LogIdx :
        LET e == stage_log[i]
        IN  /\ (e.stage = "TRAIN" /\ e.round = 0) => e.hin = H0
            /\ (e.stage \in {"TRAIN", "ROTATE"} /\ e.round > 0) =>
                  \E j \in At("DIAGONALIZE", e.round - 1) :
                      /\ j < i
                      /\ stage_log[j].ok
                      /\ e.hin = stage_log[j].hout
                      /\ e.hin # H0
                      /\ args.dbi_steps >= 1 => e.hin # stage_log[j].hin
            /\ e.stage = "ROTATE" =>
                  \E j \in At("TRAIN", e.round) :
                      j < i /\ e.hin = stage_log[j].hin
            /\ e.stage = "DIAGONALIZE" =>
                  \E j \in At("ROTATE", e.round) :
                      j < i /\ e.hin = stage_log[j].hout /\ e.hin # stage_log[j].hin

C2_Witness ==
    /\ args.dbi_steps >= 1
    /\ At("ROTATE", 1) # {}

\* C3: in every round b > 0 the first parameter vector of the recorded VQE
\* trace is the zero vector of the circuit's parameter count, and training
\* starts from it rather than from the parameters trained in round b-1;
\* round 0 starts from the supplied initial parameter vector.
C3_ZeroRestart ==
    /\ \A r \in DOMAIN params_history :
          /\ Len(params_history[r]) >= 1
          /\ Len(params_history[r][1]) = NParams
          /\ r > 0 => params_history[r][1] = Zeros(NParams)
          /\ r = 0 => params_history[r][1] = Randn(NParams)
    /\ \A i \in LogIdx :
          stage_log[i].stage = "TRAIN" =>
              /\ stage_log[i].p0 = params_history[stage_log[i].round][1]
              /\ stage_log[i].round > 0 =>
                    \A k \in 1..NParams : stage_log[i].p0[k] = 0

C3_Witness ==
    /\ 1 \in DOMAIN params_history
    /\ params_history[0][Len(params_history[0])] # Zeros(NParams)
    /\ params_history[1][1] = Zeros(NParams)

\* C4 as claimed: at DONE every history mapping has exactly the keys
\* 0..nboost-1 and every entry is a non-empty sequence.
C4_AllEntriesNonEmpty ==
    pc = "done" =>
        \A h \in 1..Len(Histories) :
            /\ DOMAIN Histories[h] = Rounds
            /\ \A r \in Rounds : Len(Histories[h][r]) >= 1

\* C4 amended: at DONE every history mapping (in memory and as persisted)
\* has exactly nboost entries keyed by the round indices 0..nboost-1; every
\* entry of the parameter, loss and fluctuation histories is non-empty, and
\* every entry of the DBI energies and DBI fluctuations has dbi_steps
\* elements, so it is non-empty exactly when dbi_steps >= 1.
C4_HistoryEntries ==
    pc = "done" =>
        /\ \A h \in 1..Len(Histories) :
              /\ DOMAIN Histories[h] = Rounds
              /\ Cardinality(DOMAIN Histories[h]) = args.nboost
        /\ \A f \in {Get(saved).loss, Get(saved).fluctuations,
                     Get(saved).dbi_energies, Get(saved).dbi_fluctuations} :
              /\ DOMAIN f = {JsonDumps(r) : r \in Rounds}
              /\ Cardinality(DOMAIN f) = args.nboost
        /\ DOMAIN Get(saved).params = Rounds
        /\ \A r \in Rounds :
              /\ Len(params_history[r]) >= 1
              /\ Len(loss_history[r]) >= 1
              /\ Len(fluctuations[r]) >= 1
              /\ Len(boost_energies[r]) = args.dbi_steps
              /\ Len(boost_fluctuations_dbi[r]) = args.dbi_steps
              /\ Get(saved).loss[JsonDumps(r)] = loss_history[r]
              /\ Get(saved).dbi_energies[JsonDumps(r)] = boost_energies[r]

C4_Witness ==
    /\ pc = "done"
    /\ args.nboost = 2
    /\ args.dbi_steps = 0
    /\ boost_energies[1] = <<>>
    /\ Len(loss_history[1]) >= 1

\* C5: every callback invocation appends exactly one energy, one fluctuation
\* and one parameter vector, no step removes or overwrites an entry, and so
\* after k invocations the three histories have length exactly k.
C5_TraceGrowsByOne ==
    /\ [](/\ Len(loss_list) = ncalls
          /\ Len(loss_fluctuation) = ncalls
          /\ Len(vqe_params_history) = ncalls)
    /\ [][/\ ncalls' = ncalls + 1 =>
                /\ \E p \in Candidates \cup {Randn(NParams)} :
                      /\ loss_list' = Append(loss_list, loss(p, H0)[1])
                      /\ loss_fluctuation' =
                             Append(loss_fluctuation, loss(p, H0)[2])
                      /\ vqe_params_history' = Append(vqe_params_history, p)
          /\ ncalls' = ncalls =>
                /\ loss_list' = loss_list
                /\ loss_fluctuation' = loss_fluctuation
                /\ vqe_params_history' = vqe_params_history
          /\ ncalls' \in {ncalls, ncalls + 1}]_vars

C5_Witness ==
    /\ vpc = "done"
    /\ ncalls = 3
    /\ Len(Get(vqe_output).params) = 3

\* C6: for every round whose DIAGONALIZE completed, and so for every round
\* of a completed run, the recorded DBI energies and DBI fluctuations have
\* length exactly dbi_steps, entry i being the value after flow step i of the
\* rotated Hamiltonian (no pre-step baseline), for every dbi_steps >= 0.
C6_DbiSequenceLength ==
    /\ \A i \in LogIdx :
          (stage_log[i].stage = "DIAGONALIZE" /\ stage_log[i].ok) =>
              LET r == stage_log[i].round
                  m == stage_log[i].hin
              IN  /\ args.dbi_steps >= 0
                  /\ Len(boost_energies[r]) = args.dbi_steps
                  /\ Len(boost_fluctuations_dbi[r]) = args.dbi_steps
                  /\ \A k \in 1..args.dbi_steps :
                        /\ boost_energies[r][k] =
                               Expectation(DbiFlow(m, k, args.optimize_dbi_step),
                                           ZeroState)
                        /\ boost_fluctuations_dbi[r][k] =
                               EnergyFluctuation(
                                   DbiFlow(m, k, args.optimize_dbi_step),
                                   ZeroState)
                        /\ boost_energies[r][k] # Expectation(m, ZeroState)
    /\ pc = "done" =>
          \A r \in Rounds :
              \E i \in At("DIAGONALIZE", r) : stage_log[i].ok

C6_Witness ==
    /\ pc = "done"
    /\ args.nboost = 2
    /\ args.dbi_steps = 2
    /\ Len(boost_energies[0]) = 2
    /\ Len(boost_energies[1]) = 2

\* C7: the final energy and fluctuation exist only once all nboost rounds
\* have completed, and they are evaluated on the Hamiltonian output by the
\* last round's DIAGONALIZE against the all-zero state: not on the original
\* Hamiltonian, not on an earlier round's output, and not on the last
\* round's rotated Hamiltonian when at least one DBI step was applied.
C7_FinalEvaluation ==
    /\ pc = "done" => IsSet(output_dict)
    /\ IsSet(output_dict) =>
          LET n == Len(stage_log)
              last == stage_log[n]
              out == Get(output_dict)
          IN  /\ pc = "done"
              /\ n = 3 * args.nboost
              /\ n >= 3
              /\ last.stage = "DIAGONALIZE"
              /\ last.round = args.nboost - 1
              /\ last.ok
              /\ out.energy = Expectation(last.hout, ZeroState)
              /\ out.fluctuations = EnergyFluctuation(last.hout, ZeroState)
              /\ out.energy.m # H0
              /\ args.dbi_steps >= 1 => out.energy.m # last.hin
              /\ \A j \in 1..(n - 3) : out.energy.m # stage_log[j].hout

C7_Witness ==
    /\ pc = "done"
    /\ args.nboost = 2
    /\ args.dbi_steps >= 1
    /\ IsSet(output_dict)

\* C8: the original Hamiltonian object keeps its matrix through every TRAIN,
\* ROTATE and DIAGONALIZE; after the first rotation the live Hamiltonian is
\* another instance; the reference ground-state energy of the result and the
\* persisted matrix are those of the Hamiltonian the run started with.
C8_OriginalUnchanged ==
    /\ pc \notin {"setup", "idle"} =>
          /\ heap[ham] = H0
          /\ Get(target_energy) = MinEigenvalue(H0)
          /\ Len(stage_log) >= 2 => new_hamiltonian # ham
    /\ pc = "done" =>
          /\ Get(output_dict).true_ground_energy = MinEigenvalue(H0)
          /\ Get(saved).hamiltonian = H0

C8_Witness ==
    /\ pc = "done"
    /\ args.nboost = 2
    /\ args.dbi_steps >= 1
    /\ Get(saved).hamiltonian = H0
    /\ heap[new_hamiltonian] # H0

\* C9 as claimed: a round whose optimizer did not converge is recorded as
\* success = false in the result.
C9_AnyFailureRecorded ==
    pc = "done" =>
        ((\E i \in LogIdx :
              stage_log[i].stage = "TRAIN" /\ ~stage_log[i].success)
         => Get(output_dict).success = FALSE)

\* Positions of the log holding a TRAIN whose optimizer did not converge.
NotConverged ==
    {i \in LogIdx : stage_log[i].stage = "TRAIN" /\ ~stage_log[i].success}

\* The run was ended by a failure of a DIAGONALIZE stage.
DiagonalizeFailed ==
    /\ pc = "error"
    /\ stage_log # <<>>
    /\ stage_log[Len(stage_log)].stage = "DIAGONALIZE"
    /\ ~stage_log[Len(stage_log)].ok
    /\ error \in {<<"ConfigurationError">>, <<"NumericalInstabilityError">>}

\* What follows a training call and what the result says about convergence.
C9_Safety ==
    /\ \A i \in LogIdx :
          stage_log[i].stage = "TRAIN" =>
              /\ stage_log[i].ok
              /\ stage_log[i].best \in
                     BestFound(params_history[stage_log[i].round])
              /\ IF i = Len(stage_log)
                 THEN pc = "rotate"
                 ELSE /\ stage_log[i + 1].stage = "ROTATE"
                      /\ stage_log[i + 1].round = stage_log[i].round
                      /\ stage_log[i + 1].ok
                      /\ stage_log[i + 1].hout =
                             Append(stage_log[i].hin,
                                    [op |-> "U", p |-> stage_log[i].best,
                                     optimized |-> FALSE])
    /\ (pc = "error" /\ stage_log # <<>>) => DiagonalizeFailed
    /\ pc = "done" =>
          /\ Len(stage_log) = 3 * args.nboost
          /\ \A r \in Rounds : At("ROTATE", r) # {} /\ At("DIAGONALIZE", r) # {}
          /\ \E i \in At("TRAIN", args.nboost - 1) :
                /\ Get(output_dict).success = stage_log[i].success
                /\ Get(output_dict).best_loss =
                       Expectation(stage_log[i].hin,
                                   ExecuteCircuit(stage_log[i].best))

\* Progress of a run: every step of main() raises it.
C9_Rank ==
    2 * Len(stage_log)
        + (IF pc = "setup" THEN 0 ELSE 1)
        + (IF pc \in {"done", "error"} THEN 1 ELSE 0)

\* C9 amended: non-convergence is not an error. If the optimizer of any
\* round b returns without converging, the run does not halt on it: round
\* b's ROTATE follows with the best-found parameters, and the run goes on
\* through the later rounds to DONE unless a DIAGONALIZE stage fails; the
\* success flag of the result is the flag of the last round's optimizer, so
\* only a non-convergence of round nboost-1 is recorded as success = false.
\* Reaching DONE is stated for the finite run: until the run is done or has
\* failed a step is always possible, every step raises the bounded rank, and
\* a run that has trained fails only in DIAGONALIZE.
C9_NonConvergenceProceeds ==
    /\ []C9_Safety
    /\ [](pc \notin {"done", "error"} => ENABLED Next)
    /\ [](C9_Rank <= 6 * args.nboost + 2)
    /\ [][C9_Rank' > C9_Rank]_main_vars

C9_Witness ==
    /\ pc = "done"
    /\ args.nboost = 2
    /\ ~stage_log[1].success
    /\ stage_log[4].success
    /\ Get(output_dict).success

\* C10: with dbi_steps < 0 the run fails before any numerical work: no
\* stage is executed and no history entry or result is produced.
C10_NegativeStepsRejectedFirst ==
    args.dbi_steps < 0 =>
        /\ stage_log = <<>>
        /\ \A h \in 1..Len(Histories) : DOMAIN Histories[h] = {}
        /\ ~IsSet(output_dict)
        /\ ~IsSet(saved)
        /\ pc # "done"

====
